---- MODULE Spec2Model ----
(***************************************************************************)
(* A model of the teleco_daisy client (src/teleco_daisy/__init__.py): the  *)
(* device registry, the device behaviours that build command records, the  *)
(* command dispatcher feed_the_commands, the acknowledgment poller          *)
(* _get_ack, the login and the status refresh update_state.  The client is *)
(* single threaded and blocking; the model splits a control call at its    *)
(* network round trips: a request is sent, the backend answers (any answer *)
(* of a small set), the client goes on.  A call of one request (login,     *)
(* room list, status refresh) is one step.                                 *)
(***************************************************************************)
EXTENDS Integers, Sequences, FiniteSets, TLC

VARIABLES
    deviceList,  \* the devices the caller holds (get_room_list's result or a direct construction)
    pc,          \* "idle" | "feed" (feedthecommands request in flight) |
                 \* "ack" (getackcommand request in flight) | "done" (the call is over)
    call,        \* the public call in progress, or the last one: [kind, dev, op, args, ignore_ack]
    plan,        \* what the called method does around feed_the_commands: [raise, commandsList, returns]
    batch,       \* the commandsList of the submission of this call (<<>> before any)
    lastReq,     \* the last request sent during this call
    feedResp,    \* Some(response to the submission) or NoneVal
    ackResp,     \* Some(last response to an ack query) or NoneVal
    ref,         \* the action_reference _get_ack polls with
    depth,       \* nested _get_ack frames
    nFeed,       \* submissions sent by this call
    nAck,        \* ack queries sent by this call
    nSleep,      \* sleep(0.5) calls of this call
    nRcv,        \* "RCV" answers received by this call
    ackRet,      \* Some(what feed_the_commands returned) or NoneVal
    ret,         \* Some(what the public method returned) or NoneVal while none returned
    err,         \* the exception that reached the caller: [type, arg]
    idAccount,   \* TelecoDaisy.idAccount: None, or Some(what the last successful login stored)
    idSession,   \* TelecoDaisy.idSession: None, or Some(what the last successful login stored)
    postResp,    \* Some(the response _post got in this call) or NoneVal
    stati,       \* Some(the list update_state returned) or NoneVal
    nStatus      \* status queries the caller made in a row for the device of this call

vars == <<deviceList, pc, call, plan, batch, lastReq, feedResp, ackResp, ref, depth,
          nFeed, nAck, nSleep, nRcv, ackRet, ret, err,
          idAccount, idSession, postResp, stati, nStatus>>

-----------------------------------------------------------------------------
(* Bounds of the model. *)

\* RCV answers the scripted backend gives to one batch in Spec
MaxRcv == 3

-----------------------------------------------------------------------------
(* Python values. None is <<>>, a present value v is <<v>>. *)

NoneVal == <<>>
Some(v) == <<v>>
IsNone(o) == o = <<>>
Val(o) == o[1]

\* a Python dict {"success": ...}: success is "True", "False" or "None"
SuccessDict(s) == [isNone |-> FALSE, success |-> s]
\* the value None as a method's return value
PyNone == [isNone |-> TRUE, success |-> "-"]

NoErr == [type |-> "", arg |-> NoneVal]
Raise(t, arg) == [type |-> t, arg |-> arg]

\* CPython's default sys.getrecursionlimit(): the deepest stack of Python frames.
\* The frames of the caller and of the HTTP library only lower the number of
\* nested _get_ack frames that fit.
RecursionLimit == 1000

-----------------------------------------------------------------------------
(* The installation the session discovered. *)

TheInstallation == [idInstallation |-> 7, instCode |-> "INST7"]

\* a second installation of the account
OtherInstallation == [idInstallation |-> 8, instCode |-> "INST8"]

Installations == {TheInstallation, OtherInstallation}

-----------------------------------------------------------------------------
(* f"{n:03d}" *)

RECURSIVE ZeroPad(_, _)
ZeroPad(s, w) == IF Len(s) >= w THEN s ELSE ZeroPad("0" \o s, w)

\* f"{n}": no width, no zero fill
FmtUnpadded(n) == ToString(n)

Fmt03d(n) == IF n < 0 THEN "-" \o ZeroPad(ToString(0 - n), 2) ELSE ZeroPad(ToString(n), 3)

-----------------------------------------------------------------------------
(* Command records: the dicts of commandsList. *)

Cmd(d, action, id, param, ll) ==
    [commandAction |-> action, commandId |-> id, commandParam |-> param,
     deviceCode |-> ToString(d.deviceIndex),
     idInstallationDevice |-> d.idInstallationDevice,
     lowlevelCommand |-> ll]

Triple(id, param, ll) == [commandId |-> id, commandParam |-> param, lowlevelCommand |-> ll]

\* DaisySlatsCover.osc_map
SlatsOscMap ==
    [open |-> Triple(94, "OPEN", "CH4"),
     stop |-> Triple(95, "STOP", "CH7"),
     close |-> Triple(96, "CLOSE", "CH1")]

\* DaisyShadeCover.osc_map
ShadeOscMap ==
    [open |-> Triple(75, "OPEN", "CH5"),
     stop |-> Triple(76, "STOP", "CH7"),
     close |-> Triple(77, "CLOSE", "CH8")]

\* percent_map with the records of "33" and "66" exchanged
PercentMapExchanged ==
    [p \in {"33", "66", "100"} |->
        CASE p = "33" -> Triple(98, "LEV3", "CH3")
          [] p = "66" -> Triple(97, "LEV2", "CH2")
          [] p = "100" -> Triple(99, "LEV4", "CH4")]

\* percent_map of DaisySlatsCover.open_cover
PercentMap ==
    [p \in {"33", "66", "100"} |->
        CASE p = "33" -> Triple(97, "LEV2", "CH2")
          [] p = "66" -> Triple(98, "LEV3", "CH3")
          [] p = "100" -> Triple(99, "LEV4", "CH4")]

\* brightness_map set by create_specific_device for idDevicemodel 34
BrightnessMap34 ==
    [b \in {25, 50, 75, 100} |->
        CASE b = 25 -> Triple(141, "LEV1", "CH4")
          [] b = 50 -> Triple(142, "LEV2", "CH3")
          [] b = 75 -> Triple(143, "LEV3", "CH2")
          [] b = 100 -> Triple(144, "LEV4", "CH1")]

\* brightness_map set by create_specific_device for idDevicemodel 17
BrightnessMap17 ==
    [b \in {25, 50, 75, 100} |->
        CASE b = 25 -> Triple(42, "LEV1", "CH4")
          [] b = 50 -> Triple(43, "LEV2", "CH3")
          [] b = 75 -> Triple(44, "LEV3", "CH2")
          [] b = 100 -> Triple(45, "LEV4", "CH1")]

-----------------------------------------------------------------------------
(* The device registry. *)

\* A device object: the raw fields the behaviours read, the class, the class's
\* tables and the cached last-known state (None after construction).
NewDevice(cls, raw, installation, osc, bmap) ==
    [cls |-> cls,
     idDevicetype |-> raw.idDevicetype,
     idDevicemodel |-> raw.idDevicemodel,
     deviceIndex |-> raw.deviceIndex,
     idInstallationDevice |-> raw.idInstallationDevice,
     installation |-> installation,
     osc_map |-> osc,
     brightness_map |-> bmap,
     is_on |-> NoneVal,
     brightness |-> NoneVal,
     rgb |-> NoneVal,
     is_closed |-> NoneVal,
     position |-> NoneVal]

\* pydantic's validation of the raw dict against DaisyBaseDevice's fields: the
\* model abstracts the dict's other fields to whether they pass it.
FieldsValidate(raw) == raw.wellFormed

\* create_specific_device as it would be with the two commented-out cases active
create_specific_device_with_legacy(raw, installation) ==
    LET t == raw.idDevicetype
        m == raw.idDevicemodel
    IN  CASE t = 23 /\ m = 32 -> NewDevice("DaisyRGBLight", raw, installation, <<>>, <<>>)
          [] t = 24 /\ m = 27 -> NewDevice("DaisySlatsCover", raw, installation, SlatsOscMap, <<>>)
          [] t = 21 /\ m = 34 -> NewDevice("DaisyWhite4LevelLight", raw, installation, <<>>, BrightnessMap34)
          [] t = 21 /\ m = 17 -> NewDevice("DaisyWhite4LevelLight", raw, installation, <<>>, BrightnessMap17)
          [] t = 21 /\ m = 20 -> NewDevice("DaisyHeater4CH", raw, installation, <<>>, <<>>)
          [] t = 22 /\ m = 25 -> NewDevice("DaisyShadeCover", raw, installation, ShadeOscMap, <<>>)
          [] t \in {21, 25} /\ ~(t = 21 /\ m \in {34, 17, 20}) ->
                NewDevice("DaisyWhiteLight", raw, installation, <<>>, <<>>)
          [] t = 22 /\ m # 25 -> NewDevice("DaisyAwningsCover", raw, installation, ShadeOscMap, <<>>)
          [] OTHER -> NewDevice("DaisyDevice", raw, installation, <<>>, <<>>)

\* create_specific_device without its "case _": the function falls off its end
\* and returns None
create_specific_device_no_default(raw, installation) ==
    LET t == raw.idDevicetype
        m == raw.idDevicemodel
    IN  CASE t = 23 /\ m = 32 -> NewDevice("DaisyRGBLight", raw, installation, <<>>, <<>>)
          [] t = 24 /\ m = 27 -> NewDevice("DaisySlatsCover", raw, installation, SlatsOscMap, <<>>)
          [] t = 21 /\ m = 34 -> NewDevice("DaisyWhite4LevelLight", raw, installation, <<>>, BrightnessMap34)
          [] t = 21 /\ m = 17 -> NewDevice("DaisyWhite4LevelLight", raw, installation, <<>>, BrightnessMap17)
          [] t = 21 /\ m = 20 -> NewDevice("DaisyHeater4CH", raw, installation, <<>>, <<>>)
          [] t = 22 /\ m = 25 -> NewDevice("DaisyShadeCover", raw, installation, ShadeOscMap, <<>>)
          [] OTHER -> NewDevice("NoneType", raw, installation, <<>>, <<>>)

\* create_specific_device: the match statement, first case that matches
create_specific_device(raw, installation) ==
    LET t == raw.idDevicetype
        m == raw.idDevicemodel
    IN  CASE t = 23 /\ m = 32 -> NewDevice("DaisyRGBLight", raw, installation, <<>>, <<>>)
          [] t = 24 /\ m = 27 -> NewDevice("DaisySlatsCover", raw, installation, SlatsOscMap, <<>>)
          [] t = 21 /\ m = 34 -> NewDevice("DaisyWhite4LevelLight", raw, installation, <<>>, BrightnessMap34)
          [] t = 21 /\ m = 17 -> NewDevice("DaisyWhite4LevelLight", raw, installation, <<>>, BrightnessMap17)
          [] t = 21 /\ m = 20 -> NewDevice("DaisyHeater4CH", raw, installation, <<>>, <<>>)
          [] t = 22 /\ m = 25 -> NewDevice("DaisyShadeCover", raw, installation, ShadeOscMap, <<>>)
          [] OTHER -> NewDevice("DaisyDevice", raw, installation, <<>>, <<>>)

\* The control methods each class defines (update_state is every class's).
ControlMethods(cls) ==
    CASE cls \in {"DaisySlatsCover", "DaisyShadeCover", "DaisyAwningsCover"} ->
            {"open_cover", "stop_cover", "close_cover"}
      [] cls = "DaisyRGBLight" -> {"turn_on", "turn_off", "set_rgb_and_brightness"}
      [] cls \in {"DaisyWhiteLight", "DaisyWhite4LevelLight"} ->
            {"turn_on", "turn_off", "set_brightness"}
      [] cls = "DaisyHeater4CH" -> {"turn_on", "turn_off", "set_level"}
      [] OTHER -> {}

-----------------------------------------------------------------------------
(* Device behaviours: what a control method does before it hands its        *)
(* commandsList to feed_the_commands.  A plan is the exception the method   *)
(* raises before any request, or the commandsList it submits and whether    *)
(* the method returns feed_the_commands' value to its caller.               *)

NoArgs == [percent |-> NoneVal, rgb |-> NoneVal, brightness |-> NoneVal, level |-> ""]

PlanRaise(t) == [raise |-> t, commandsList |-> <<>>, returns |-> FALSE]
PlanFeed(cmds, returns) == [raise |-> "", commandsList |-> cmds, returns |-> returns]

\* Python's "x or 0" on an int | None
OrZero(o) == IF IsNone(o) THEN 0 ELSE IF Val(o) = 0 THEN 0 ELSE Val(o)

\* "0 > brightness or brightness > 100" with the upper bound taken one too early
BrightnessInvalidOffByOne(b) == 0 > b \/ b >= 100

\* "0 > brightness or brightness > 100"
BrightnessInvalid(b) == 0 > b \/ b > 100

\* any((c < 0 or c > 255) for c in rgb)
ColorInvalid(rgb) == \E i \in 1..3 : rgb[i] < 0 \/ rgb[i] > 255

\* _open_stop_close reading the slat cover's osc_map whatever the class
open_stop_close_slats_map(d, which) ==
    LET t == SlatsOscMap[which]
    IN  <<Cmd(d, "OPEN_STOP_CLOSE", t.commandId, t.commandParam, t.lowlevelCommand)>>

\* DaisyCover._open_stop_close
open_stop_close(d, which) ==
    LET t == d.osc_map[which]
    IN  <<Cmd(d, "OPEN_STOP_CLOSE", t.commandId, t.commandParam, t.lowlevelCommand)>>

\* open_cover with DaisySlatsCover's percent handling in every cover class
open_cover_percent_everywhere(d, a) ==
    IF IsNone(a.percent) \/ a.percent = Some("100")
    THEN PlanFeed(open_stop_close(d, "open"), TRUE)
    ELSE IF Val(a.percent) \in DOMAIN PercentMap
         THEN LET t == PercentMap[Val(a.percent)]
              IN  PlanFeed(<<Cmd(d, "LEVEL", t.commandId, t.commandParam,
                                 t.lowlevelCommand)>>, TRUE)
         ELSE PlanRaise("KeyError")

\* DaisyCover.open_cover and DaisySlatsCover.open_cover
open_cover(d, a) ==
    IF d.cls = "DaisySlatsCover"
    THEN IF IsNone(a.percent) \/ a.percent = Some("100")
         THEN PlanFeed(open_stop_close(d, "open"), TRUE)
         ELSE IF Val(a.percent) \in DOMAIN PercentMap
              THEN LET t == PercentMap[Val(a.percent)]
                   IN  PlanFeed(<<Cmd(d, "LEVEL", t.commandId, t.commandParam,
                                      t.lowlevelCommand)>>, TRUE)
              ELSE PlanRaise("KeyError")
    ELSE \* DaisyCover.open_cover(self) takes no percent
         IF IsNone(a.percent)
         THEN PlanFeed(open_stop_close(d, "open"), TRUE)
         ELSE PlanRaise("TypeError")

\* DaisyCover.stop_cover: the result of _open_stop_close is dropped
stop_cover(d) == PlanFeed(open_stop_close(d, "stop"), FALSE)

\* DaisyCover.close_cover: the result of _open_stop_close is dropped
close_cover(d) == PlanFeed(open_stop_close(d, "close"), FALSE)

\* DaisyLight._turn_on
turn_on_cmd(d, id, ll) == <<Cmd(d, "POWER", id, "ON", ll)>>

\* DaisyLight._turn_off
turn_off_cmd(d, id, ll) == <<Cmd(d, "POWER", id, "OFF", ll)>>

\* turn_on of each class
turn_on(d) ==
    CASE d.cls = "DaisyRGBLight" -> PlanFeed(turn_on_cmd(d, 138, "None"), TRUE)
      [] d.cls \in {"DaisyWhiteLight", "DaisyWhite4LevelLight"} ->
            IF d.idDevicetype = 21 /\ d.idDevicemodel = 17
            THEN PlanFeed(turn_on_cmd(d, 40, "CH1"), TRUE)
            ELSE PlanFeed(turn_on_cmd(d, 146, "CH1"), TRUE)
      [] d.cls = "DaisyHeater4CH" -> PlanFeed(<<Cmd(d, "POWER", 58, "ON", "CH1")>>, TRUE)

\* turn_off of each class
turn_off(d) ==
    CASE d.cls = "DaisyRGBLight" -> PlanFeed(turn_off_cmd(d, 138, "None"), TRUE)
      [] d.cls = "DaisyWhiteLight" ->
            IF d.idDevicetype = 21 /\ d.idDevicemodel = 17
            THEN PlanFeed(turn_off_cmd(d, 41, "CH8"), TRUE)
            ELSE PlanFeed(turn_off_cmd(d, 147, "CH8"), TRUE)
      [] d.cls = "DaisyWhite4LevelLight" ->
            IF d.idDevicetype = 21 /\ d.idDevicemodel = 17
            THEN PlanFeed(turn_off_cmd(d, 41, "CH8"), TRUE)
            ELSE IF d.idDevicetype = 21 /\ d.idDevicemodel = 34
                 THEN PlanFeed(turn_on_cmd(d, 147, "CH8"), TRUE)   \* calls self._turn_on
                 ELSE PlanFeed(turn_off_cmd(d, 147, "CH8"), TRUE)
      [] d.cls = "DaisyHeater4CH" -> PlanFeed(<<Cmd(d, "POWER", 59, "OFF", "CH4")>>, TRUE)

\* set_rgb_and_brightness whose defaults are 0 and (255, 255, 255) whatever
\* the device has cached
set_rgb_and_brightness_fixed_defaults(d, a) ==
    LET brightness == IF IsNone(a.brightness) THEN 0 ELSE Val(a.brightness)
        rgb == IF IsNone(a.rgb) THEN <<255, 255, 255>> ELSE Val(a.rgb)
    IN  IF BrightnessInvalid(brightness) THEN PlanRaise("ValueError")
        ELSE IF ColorInvalid(rgb) THEN PlanRaise("ValueError")
        ELSE PlanFeed(<<Cmd(d, "COLOR", 137,
                            "A" \o Fmt03d(brightness) \o "R" \o Fmt03d(rgb[1])
                                \o "G" \o Fmt03d(rgb[2]) \o "B" \o Fmt03d(rgb[3]),
                            "None")>>, TRUE)

\* DaisyRGBLight.set_rgb_and_brightness
set_rgb_and_brightness(d, a) ==
    LET brightness == IF IsNone(a.brightness) THEN OrZero(d.brightness) ELSE Val(a.brightness)
        rgb == IF IsNone(a.rgb)
               THEN IF IsNone(d.rgb) THEN <<255, 255, 255>> ELSE Val(d.rgb)
               ELSE Val(a.rgb)
    IN  IF BrightnessInvalid(brightness) THEN PlanRaise("ValueError")
        ELSE IF ColorInvalid(rgb) THEN PlanRaise("ValueError")
        ELSE PlanFeed(<<Cmd(d, "COLOR", 137,
                            "A" \o Fmt03d(brightness) \o "R" \o Fmt03d(rgb[1])
                                \o "G" \o Fmt03d(rgb[2]) \o "B" \o Fmt03d(rgb[3]),
                            "None")>>, TRUE)

\* the if-chain of DaisyWhite4LevelLight.set_brightness with the first two
\* thresholds moved by one
BrightnessBandShifted(b) ==
    IF 1 <= b /\ b <= 36 THEN 25
    ELSE IF 37 <= b /\ b <= 61 THEN 50
    ELSE IF 63 <= b /\ b <= 87 THEN 75
    ELSE 100

\* the if-chain of DaisyWhite4LevelLight.set_brightness
BrightnessBand(b) ==
    IF 1 <= b /\ b <= 37 THEN 25
    ELSE IF 38 <= b /\ b <= 62 THEN 50
    ELSE IF 63 <= b /\ b <= 87 THEN 75
    ELSE 100

\* DaisyWhiteLight.set_brightness and DaisyWhite4LevelLight.set_brightness
set_brightness(d, a) ==
    LET brightness == IF IsNone(a.brightness) THEN OrZero(d.brightness) ELSE Val(a.brightness)
    IN  IF BrightnessInvalid(brightness) THEN PlanRaise("ValueError")
        ELSE IF d.cls = "DaisyWhiteLight"
        THEN PlanFeed(<<Cmd(d, "COLOR", 146, "A" \o Fmt03d(brightness) \o "R255G255B255",
                            "CH1")>>, TRUE)
        ELSE IF brightness = 0 THEN turn_off(d)
        ELSE LET vals == d.brightness_map[BrightnessBand(brightness)]
             IN  PlanFeed(<<Cmd(d, "LEVEL", vals.commandId, vals.commandParam,
                                vals.lowlevelCommand)>>, TRUE)

\* DaisyHeater4CH.set_level
set_level(d, a) ==
    LET cmd == IF a.level = "50" THEN Triple(60, "LEV2", "CH3")
               ELSE IF a.level = "75" THEN Triple(61, "LEV3", "CH2")
               ELSE Triple(62, "LEV4", "CH1")
    IN  PlanFeed(<<Cmd(d, "LEVEL", cmd.commandId, cmd.commandParam, cmd.lowlevelCommand)>>,
                 TRUE)

\* the method op of device d called with arguments a
Invoke(d, op, a) ==
    CASE op = "open_cover" -> open_cover(d, a)
      [] op = "stop_cover" -> stop_cover(d)
      [] op = "close_cover" -> close_cover(d)
      [] op = "turn_on" -> turn_on(d)
      [] op = "turn_off" -> turn_off(d)
      [] op = "set_rgb_and_brightness" -> set_rgb_and_brightness(d, a)
      [] op = "set_brightness" -> set_brightness(d, a)
      [] op = "set_level" -> set_level(d, a)

-----------------------------------------------------------------------------
(* The status refresh: update_state of each class. *)

\* the value of a decimal digit, -1 for any other character
DigitValue(c) ==
    CASE c = "0" -> 0 [] c = "1" -> 1 [] c = "2" -> 2 [] c = "3" -> 3 [] c = "4" -> 4
      [] c = "5" -> 5 [] c = "6" -> 6 [] c = "7" -> 7 [] c = "8" -> 8 [] c = "9" -> 9
      [] OTHER -> -1

RECURSIVE ParseDigits(_, _)
ParseDigits(s, acc) ==
    IF Len(s) = 0 THEN Some(acc)
    ELSE LET v == DigitValue(SubSeq(s, 1, 1))
         IN  IF v < 0 THEN NoneVal ELSE ParseDigits(SubSeq(s, 2, Len(s)), (acc * 10) + v)

\* int(s) of a str: Some(n), or NoneVal where int raises ValueError.  The sign
\* is read; the strings of the model hold no blank and no underscore.
PyInt(s) ==
    IF Len(s) = 0 THEN NoneVal
    ELSE IF SubSeq(s, 1, 1) \in {"-", "+"}
    THEN IF Len(s) = 1 THEN NoneVal
         ELSE LET n == ParseDigits(SubSeq(s, 2, Len(s)), 0)
              IN  IF IsNone(n) THEN NoneVal
                  ELSE IF SubSeq(s, 1, 1) = "-" THEN Some(0 - Val(n)) ELSE n
    ELSE ParseDigits(s, 0)

\* s[a:b] of a str, 0 <= a <= b
PySlice(s, a, b) == SubSeq(s, a + 1, IF b < Len(s) THEN b ELSE Len(s))

\* what a loop body leaves: the device, and the exception it raised if any
Kept(d) == [dev |-> d, err |-> NoErr]
Failed(d, t) == [dev |-> d, err |-> Raise(t, NoneVal)]

\* the body of DaisyCover.update_state's loop without the default case: a
\* value other than CLOSE and OPEN leaves the flag as it was
cover_rule_without_default(d, status) ==
    IF status.statusitemCode = "OPEN_CLOSE"
    THEN Kept([d EXCEPT !.is_closed =
                 CASE status.statusValue = "CLOSE" -> Some(TRUE)
                   [] status.statusValue = "OPEN" -> Some(FALSE)
                   [] OTHER -> d.is_closed])
    ELSE Kept(d)

\* the body of DaisyCover.update_state's loop
cover_rule(d, status) ==
    IF status.statusitemCode = "OPEN_CLOSE"
    THEN Kept([d EXCEPT !.is_closed =
                 CASE status.statusValue = "CLOSE" -> Some(TRUE)
                   [] status.statusValue = "OPEN" -> Some(FALSE)
                   [] OTHER -> NoneVal])
    ELSE Kept(d)

\* the body of DaisySlatsCover.update_state's loop with the value added to
\* the position instead of replacing it
level_rule_relative(d, status) ==
    IF status.statusitemCode = "LEVEL"
    THEN LET n == PyInt(status.statusValue)
         IN  IF IsNone(n) THEN Failed(d, "ValueError")
             ELSE Kept([d EXCEPT !.position = Some(OrZero(d.position) + Val(n))])
    ELSE Kept(d)

\* the body of DaisySlatsCover.update_state's loop
level_rule(d, status) ==
    IF status.statusitemCode = "LEVEL"
    THEN LET n == PyInt(status.statusValue)
         IN  IF IsNone(n) THEN Failed(d, "ValueError")
             ELSE Kept([d EXCEPT !.position = n])
    ELSE Kept(d)

\* the body of DaisyLight.update_state's loop without the test of the code
power_rule_any_code(d, status) ==
    Kept([d EXCEPT !.is_on = Some(status.statusValue = "ON")])

\* the body of DaisyLight.update_state's loop
power_rule(d, status) ==
    IF status.statusitemCode = "POWER"
    THEN Kept([d EXCEPT !.is_on = Some(status.statusValue = "ON")])
    ELSE Kept(d)

\* the body of DaisyRGBLight.update_state's loop: brightness is assigned
\* before the rgb tuple is built
color_rule(d, status) ==
    IF status.statusitemCode = "COLOR"
    THEN LET val == status.statusValue
             a == PyInt(PySlice(val, 1, 4))
             r == PyInt(PySlice(val, 5, 8))
             g == PyInt(PySlice(val, 9, 12))
             b == PyInt(PySlice(val, 13, 16))
         IN  IF IsNone(a) THEN Failed(d, "ValueError")
             ELSE IF IsNone(r) \/ IsNone(g) \/ IsNone(b)
             THEN Failed([d EXCEPT !.brightness = a], "ValueError")
             ELSE Kept([d EXCEPT !.brightness = a,
                                 !.rgb = Some(<<Val(r), Val(g), Val(b)>>)])
    ELSE Kept(d)

\* the loops update_state of a class runs over stati, super()'s first
StatusLoops(cls) ==
    CASE cls = "DaisySlatsCover" -> <<"OPEN_CLOSE", "LEVEL">>
      [] cls \in {"DaisyShadeCover", "DaisyAwningsCover"} -> <<"OPEN_CLOSE">>
      [] cls = "DaisyRGBLight" -> <<"POWER", "COLOR">>
      [] cls \in {"DaisyWhiteLight", "DaisyWhite4LevelLight"} -> <<"POWER">>
      [] OTHER -> <<>>

LoopBody(loop, d, status) ==
    CASE loop = "OPEN_CLOSE" -> cover_rule(d, status)
      [] loop = "LEVEL" -> level_rule(d, status)
      [] loop = "POWER" -> power_rule(d, status)
      [] loop = "COLOR" -> color_rule(d, status)

\* "for status in stati": an exception ends the loop and the method
ForStatus(loop, d, items) ==
    LET after[k \in 0..Len(items)] ==
            IF k = 0 THEN Kept(d)
            ELSE IF after[k - 1].err # NoErr THEN after[k - 1]
            ELSE LoopBody(loop, after[k - 1].dev, items[k])
    IN  after[Len(items)]

\* the loops of the class one after the other
RunLoops(loops, d, items) ==
    LET after[k \in 0..Len(loops)] ==
            IF k = 0 THEN Kept(d)
            ELSE IF after[k - 1].err # NoErr THEN after[k - 1]
            ELSE ForStatus(loops[k], after[k - 1].dev, items)
    IN  after[Len(loops)]

\* update_state that forgets what it cached when the status query fails
update_state_forgets_on_failure(d, resp) ==
    IF resp.codEsito # "S"
    THEN [dev |-> [d EXCEPT !.is_on = NoneVal, !.brightness = NoneVal, !.rgb = NoneVal,
                            !.is_closed = NoneVal, !.position = NoneVal],
          stati |-> NoneVal, err |-> Raise("Exception", Some(resp))]
    ELSE LET r == RunLoops(StatusLoops(d.cls), d, resp.statusitemList)
         IN  [dev |-> r.dev,
              stati |-> IF r.err = NoErr THEN Some(resp.statusitemList) ELSE NoneVal,
              err |-> r.err]

\* update_state as src/teleco_daisy.py has it: DaisyCover's and DaisyLight's
\* have no return statement
update_state_without_return(d, resp) ==
    IF resp.codEsito # "S"
    THEN [dev |-> d, stati |-> NoneVal, err |-> Raise("Exception", Some(resp))]
    ELSE LET r == RunLoops(StatusLoops(d.cls), d, resp.statusitemList)
         IN  [dev |-> r.dev,
              stati |-> IF r.err = NoErr /\ StatusLoops(d.cls) = <<>>
                        THEN Some(resp.statusitemList) ELSE NoneVal,
              err |-> r.err]

\* update_state of device d when the backend answers the status query with
\* resp: _post raises Exception(req_json) unless codEsito is "S"; otherwise
\* the class's loops run over the status items and the list is returned
update_state(d, resp) ==
    IF resp.codEsito # "S"
    THEN [dev |-> d, stati |-> NoneVal, err |-> Raise("Exception", Some(resp))]
    ELSE LET r == RunLoops(StatusLoops(d.cls), d, resp.statusitemList)
         IN  [dev |-> r.dev,
              stati |-> IF r.err = NoErr THEN Some(resp.statusitemList) ELSE NoneVal,
              err |-> r.err]

-----------------------------------------------------------------------------
(* What the backend may answer, and what the caller may pass. *)

\* room-list entries: the table's pairs, pairs of the legacy families, an unknown pair
DevicePairs ==
    {<<23, 32>>, <<24, 27>>, <<21, 34>>, <<21, 17>>, <<21, 20>>, <<22, 25>>,
     <<22, 1>>, <<21, 1>>, <<25, 1>>, <<23, 1>>, <<99, 1>>}

\* only the slat cover
SlatPairs == {<<24, 27>>}

\* the room's i-th device dict: the backend numbers the devices of a room
RawDevice(pair, i, ok) ==
    [idDevicetype |-> pair[1], idDevicemodel |-> pair[2], deviceIndex |-> i,
     idInstallationDevice |-> 100 + i, wellFormed |-> ok]

\* the deviceList of a room-list response: an empty room, a room of one device
\* of any of the pairs, a room of two devices
RawLists(pairs) ==
    {<<>>}
    \cup {<<e>> : e \in pairs \X BOOLEAN}
    \cup {<<<<p, TRUE>>, <<<<23, 32>>, TRUE>>>> : p \in pairs \cap {<<24, 27>>, <<23, 32>>}}

RawsOf(l) == [i \in DOMAIN l |-> RawDevice(l[i][1], i, l[i][2])]

\* the device dicts of a room of installation: the backend's
\* idInstallationDevice is of one installation only, those of the second
\* installation are 201, 202
RawsIn(l, installation) ==
    [i \in DOMAIN l |->
        [RawsOf(l)[i] EXCEPT !.idInstallationDevice =
            @ + (100 * (installation.idInstallation - TheInstallation.idInstallation))]]

FeedResponses == [MessageID : {"WS-000", "WS-001"}, ActionReference : {"ref1", "ref2"}]

AckResponses ==
    [MessageID : {"WS-300"}, MessageText : {"RCV", "PROC", "FOO", "RECEIVED", "PROCESSED"}]
    \cup [MessageID : {"WS-301"}, MessageText : {"RCV", "PROC"}]

BrightnessArgs(ints) == {NoneVal} \cup {Some(b) : b \in ints}

RGBArgs ==
    {NoneVal, Some(<<255, 255, 255>>), Some(<<10, 20, 30>>)}
    \cup {Some(<<c, 0, 0>>) : c \in {-1, 0, 255, 256}}
    \cup {Some(<<0, c, 0>>) : c \in {-1, 255, 256}}
    \cup {Some(<<0, 0, c>>) : c \in {-1, 255, 256}}

\* the arguments the caller may pass to op of a device of class cls
ArgsOf(cls, op) ==
    CASE op = "open_cover" /\ cls = "DaisySlatsCover" ->
            {[NoArgs EXCEPT !.percent = p] :
                p \in {NoneVal, Some("33"), Some("66"), Some("100"), Some("50")}}
      [] op = "open_cover" /\ cls # "DaisySlatsCover" ->
            {[NoArgs EXCEPT !.percent = p] :
                p \in {NoneVal, Some("33"), Some("66"), Some("100")}}
      [] op = "set_rgb_and_brightness" ->
            {[NoArgs EXCEPT !.rgb = c, !.brightness = b] :
                c \in RGBArgs, b \in BrightnessArgs({-1, 0, 40, 100, 101})}
      [] op = "set_brightness" ->
            {[NoArgs EXCEPT !.brightness = b] : b \in BrightnessArgs(-1..101)}
      [] op = "set_level" ->
            {[NoArgs EXCEPT !.level = l] : l \in {"50", "75", "100"}}
      [] OTHER -> {NoArgs}

AllOps ==
    {"open_cover", "stop_cover", "close_cover", "turn_on", "turn_off",
     "set_rgb_and_brightness", "set_brightness", "set_level"}

\* room-list entries of SpecStatus: the RGB light comes in the two-device room
StatusPairs == {<<24, 27>>, <<21, 34>>, <<21, 20>>, <<22, 25>>, <<99, 1>>}

\* a few arguments per method, where the status refresh is what is explored
StatusArgsOf(cls, op) ==
    CASE op = "open_cover" /\ cls = "DaisySlatsCover" ->
            {[NoArgs EXCEPT !.percent = p] : p \in {NoneVal, Some("66")}}
      [] op = "set_rgb_and_brightness" ->
            {NoArgs,
             [NoArgs EXCEPT !.rgb = Some(<<10, 20, 30>>), !.brightness = Some(40)],
             [NoArgs EXCEPT !.rgb = Some(<<1, 2, 3>>)],
             [NoArgs EXCEPT !.brightness = Some(55)],
             [NoArgs EXCEPT !.brightness = Some(101)]}
      [] op = "set_brightness" ->
            {[NoArgs EXCEPT !.brightness = b] : b \in BrightnessArgs({0, 50})}
      [] op = "set_level" -> {[NoArgs EXCEPT !.level = "75"]}
      [] OTHER -> {NoArgs}

\* the channels and brightnesses of SpecColour: every digit position takes
\* several digits, the bounds included
ColourChannels == {0, 9, 10, 99, 100, 255}
ColourBrightnesses == {0, 7, 10, 42, 99, 100}

ColourArgsOf(cls, op) ==
    {[NoArgs EXCEPT !.rgb = Some(<<r, g, b>>), !.brightness = Some(a)] :
        r \in ColourChannels, g \in ColourChannels, b \in ColourChannels,
        a \in ColourBrightnesses}

\* a DaisyStatus: the two fields update_state reads
StatusItem(code, value) == [statusitemCode |-> code, statusValue |-> value]

\* status items of every code the classes read, one code none reads,
\* values int() does not take, and colours outside the ranges the client sends
StatusItems ==
    {StatusItem("OPEN_CLOSE", v) : v \in {"CLOSE", "OPEN", "STOP"}}
    \cup {StatusItem("LEVEL", v) : v \in {"0", "66", "LEV2"}}
    \cup {StatusItem("POWER", v) : v \in {"ON", "OFF"}}
    \cup {StatusItem("COLOR", v) :
            v \in {"A040R010G020B030", "A100R255G255B255", "A007R010",
                   "A000R000G000B000", "A150R010G020B030", "A040R300G020B030"}}
    \cup {StatusItem("TEMP", "21")}

\* the items that come second in a list of two
SecondItems ==
    {StatusItem("OPEN_CLOSE", "OPEN"), StatusItem("LEVEL", "66"), StatusItem("POWER", "OFF"),
     StatusItem("COLOR", "A100R255G255B255"), StatusItem("TEMP", "21")}

StatusLists ==
    {<<>>}
    \cup {<<x>> : x \in StatusItems}
    \cup {<<x, y>> : x \in StatusItems, y \in SecondItems}

\* responses to the status query: codEsito "S" with a statusitemList, or a failure
StatusResponses ==
    {[codEsito |-> "S", statusitemList |-> l] : l \in StatusLists}
    \cup {[codEsito |-> "E"]}

\* responses to the login: codEsito "S" with the account and the session, or a failure
LoginResponses(sessions) ==
    {[codEsito |-> "S", idAccount |-> 1, idSession |-> s] : s \in sessions}
    \cup {[codEsito |-> "E"]}

-----------------------------------------------------------------------------
(* Requests. *)

NoReq == [path |-> ""]

\* the submission sent to the first installation whatever the device's is
FeedReqFirstInstallation(installation, commandsList) ==
    [path |-> "teleco/services/tmate20/feedthecommands/",
     idSession |-> idSession,
     commandsList |-> commandsList,
     idInstallation |-> TheInstallation.instCode,
     idScenario |-> 0,
     isScenario |-> FALSE]

\* the submission with the installation's numeric id, in decimal, as its idInstallation
FeedReqNumericId(installation, commandsList) ==
    [path |-> "teleco/services/tmate20/feedthecommands/",
     idSession |-> idSession,
     commandsList |-> commandsList,
     idInstallation |-> ToString(installation.idInstallation),
     idScenario |-> 0,
     isScenario |-> FALSE]

FeedReq(installation, commandsList) ==
    [path |-> "teleco/services/tmate20/feedthecommands/",
     idSession |-> idSession,
     commandsList |-> commandsList,
     idInstallation |-> installation.instCode,
     idScenario |-> 0,
     isScenario |-> FALSE]

\* the ack query that carries the reference the client held before the
\* submission was answered
AckReqHeldReference(installation, action_reference) ==
    [path |-> "teleco/services/tmate20/getackcommand/",
     idSession |-> idSession,
     id |-> ref,
     idInstallation |-> installation.instCode]

AckReq(installation, action_reference) ==
    [path |-> "teleco/services/tmate20/getackcommand/",
     idSession |-> idSession,
     id |-> action_reference,
     idInstallation |-> installation.instCode]

\* login's _post is unauth: the payload is the credentials alone
LoginReq == [path |-> "teleco/services/account-login", email |-> "email", pwd |-> "pwd"]

\* get_account_installation_list's _post has no json of its own
InstallationListReq ==
    [path |-> "teleco/services/account-installation-list",
     idSession |-> idSession,
     idAccount |-> idAccount]

RoomListReq(installation) ==
    [path |-> "teleco/services/room-list",
     idSession |-> idSession,
     idAccount |-> idAccount,
     idInstallation |-> installation.idInstallation]

StatusReq(installation, device) ==
    [path |-> "teleco/services/status-device-list",
     idSession |-> idSession,
     idAccount |-> idAccount,
     idInstallation |-> installation.idInstallation,
     idInstallationDevice |-> device.idInstallationDevice]

-----------------------------------------------------------------------------
(* feed_the_commands and _get_ack: what the code does with a response. *)

\* feed_the_commands with the ignore_ack test before the MessageID test
feed_the_commands_flag_first(res, ignore_ack) ==
    IF ignore_ack THEN "return"
    ELSE IF res.MessageID # "WS-000" THEN "raise"
    ELSE "poll"

\* feed_the_commands that polls whatever ignore_ack is
feed_the_commands_always_polls(res, ignore_ack) ==
    IF res.MessageID # "WS-000" THEN "raise" ELSE "poll"

\* feed_the_commands after the response: raise Exception(res), return
\* {"success": None}, or return self._get_ack(...)
feed_the_commands_on(res, ignore_ack) ==
    IF res.MessageID # "WS-000" THEN "raise"
    ELSE IF ignore_ack THEN "return"
    ELSE "poll"

\* _get_ack with the MessageText tests before the MessageID test
get_ack_text_first(res) ==
    IF res.MessageText = "RCV" THEN "retry"
    ELSE IF res.MessageID # "WS-300" THEN "assert"
    ELSE IF res.MessageText = "PROC" THEN "true"
    ELSE "false"

\* _get_ack after the response: raise AssertionError(), sleep and call itself,
\* return {"success": True} or return {"success": False}
get_ack_on(res) ==
    IF res.MessageID # "WS-300" THEN "assert"
    ELSE IF res.MessageText = "RCV" THEN "retry"
    ELSE IF res.MessageText = "PROC" THEN "true"
    ELSE "false"

-----------------------------------------------------------------------------
(* The state machine. *)

NoCall == [kind |-> "", dev |-> 0, op |-> "", args |-> NoArgs, ignore_ack |-> FALSE,
           raws |-> <<>>]

NoPlan == PlanFeed(<<>>, FALSE)

Init ==
    /\ deviceList = <<>>
    /\ pc = "idle"
    /\ call = NoCall
    /\ plan = NoPlan
    /\ batch = <<>>
    /\ lastReq = NoReq
    /\ feedResp = NoneVal
    /\ ackResp = NoneVal
    /\ ref = ""
    /\ depth = 0
    /\ nFeed = 0
    /\ nAck = 0
    /\ nSleep = 0
    /\ nRcv = 0
    /\ ackRet = NoneVal
    /\ ret = NoneVal
    /\ err = NoErr
    /\ idAccount = NoneVal
    /\ idSession = NoneVal
    /\ postResp = NoneVal
    /\ stati = NoneVal
    /\ nStatus = 0

\* a public call starts: what the previous call left is forgotten
StartCall(c, p) ==
    /\ call' = c
    /\ plan' = p
    /\ feedResp' = NoneVal
    /\ ackResp' = NoneVal
    /\ ref' = ""
    /\ depth' = 0
    /\ nAck' = 0
    /\ nSleep' = 0
    /\ nRcv' = 0
    /\ ackRet' = NoneVal
    /\ ret' = NoneVal

\* the call ends before any request
EndLocal(e) ==
    /\ pc' = "done"
    /\ batch' = <<>>
    /\ lastReq' = NoReq
    /\ nFeed' = 0
    /\ err' = e
    /\ postResp' = NoneVal
    /\ stati' = NoneVal

\* the call ends after the one request req that _post sent and resp answered
EndPost(req, resp, e) ==
    /\ pc' = "done"
    /\ batch' = <<>>
    /\ lastReq' = req
    /\ nFeed' = 0
    /\ err' = e
    /\ postResp' = Some(resp)
    /\ stati' = NoneVal

\* feed_the_commands sends the submission
SendFeed(installation, commandsList) ==
    /\ pc' = "feed"
    /\ batch' = commandsList
    /\ lastReq' = FeedReq(installation, commandsList)
    /\ nFeed' = 1
    /\ err' = NoErr
    /\ postResp' = NoneVal
    /\ stati' = NoneVal

\* login that drops the account and the session it held when the backend
\* refuses the credentials
LoginForgetsOnFailure(sessions) ==
    /\ pc = "idle"
    /\ \E resp \in LoginResponses(sessions) :
        /\ StartCall([NoCall EXCEPT !.kind = "login", !.op = "login"], NoPlan)
        /\ IF resp.codEsito # "S"
           THEN /\ EndPost(LoginReq, resp, Raise("Exception", Some(resp)))
                /\ idAccount' = NoneVal
                /\ idSession' = NoneVal
           ELSE /\ EndPost(LoginReq, resp, NoErr)
                /\ idAccount' = Some(resp.idAccount)
                /\ idSession' = Some(resp.idSession)
    /\ nStatus' = 0
    /\ UNCHANGED deviceList

\* TelecoDaisy.login: one request; the account and the session are stored
\* when _post returned
Login(sessions) ==
    /\ pc = "idle"
    /\ \E resp \in LoginResponses(sessions) :
        /\ StartCall([NoCall EXCEPT !.kind = "login", !.op = "login"], NoPlan)
        /\ IF resp.codEsito # "S"
           THEN /\ EndPost(LoginReq, resp, Raise("Exception", Some(resp)))
                /\ UNCHANGED <<idAccount, idSession>>
           ELSE /\ EndPost(LoginReq, resp, NoErr)
                /\ idAccount' = Some(resp.idAccount)
                /\ idSession' = Some(resp.idSession)
    /\ nStatus' = 0
    /\ UNCHANGED deviceList

\* TelecoDaisy.get_account_installation_list: one request; the installations
\* of the response are handed to the caller
GetAccountInstallationList ==
    /\ pc = "idle"
    /\ \E codEsito \in {"S", "E"} :
        LET resp == IF codEsito = "S"
                    THEN [codEsito |-> codEsito, installationList |-> <<TheInstallation>>]
                    ELSE [codEsito |-> codEsito]
        IN  /\ StartCall([NoCall EXCEPT !.kind = "installation_list",
                                        !.op = "get_account_installation_list"], NoPlan)
            /\ EndPost(InstallationListReq, resp,
                       IF codEsito # "S" THEN Raise("Exception", Some(resp)) ELSE NoErr)
    /\ nStatus' = 0
    /\ UNCHANGED <<deviceList, idAccount, idSession>>

\* TelecoDaisy.get_room_list: one request, then a device per entry
GetRoomListOf(pairs, installations) ==
    /\ pc = "idle"
    /\ \E codEsito \in {"S", "E"}, l \in RawLists(pairs), installation \in installations :
        LET raws == RawsIn(l, installation)
            c == [NoCall EXCEPT !.kind = "room_list", !.op = "get_room_list", !.raws = raws]
            req == RoomListReq(installation)
            resp == IF codEsito = "S" THEN [codEsito |-> codEsito, deviceList |-> raws]
                    ELSE [codEsito |-> codEsito]
        IN  /\ StartCall(c, NoPlan)
            /\ IF codEsito # "S"
               THEN /\ EndPost(req, resp, Raise("Exception", Some(resp)))
                    /\ UNCHANGED deviceList
               ELSE IF \E i \in DOMAIN raws : ~FieldsValidate(raws[i])
               THEN /\ EndPost(req, resp, Raise("ValidationError", NoneVal))
                    /\ UNCHANGED deviceList
               ELSE /\ EndPost(req, resp, NoErr)
                    /\ deviceList' =
                          [i \in DOMAIN raws |-> create_specific_device(raws[i], installation)]
    /\ nStatus' = 0
    /\ UNCHANGED <<idAccount, idSession>>

\* get_room_list of the first installation
GetRoomList(pairs) == GetRoomListOf(pairs, {TheInstallation})

\* the caller constructs a device of a class the registry does not use
ConstructDevice ==
    /\ pc = "idle"
    /\ \E cls \in {"DaisyWhiteLight", "DaisyAwningsCover"}, pair \in {<<21, 17>>, <<21, 1>>, <<22, 1>>} :
        /\ (cls = "DaisyAwningsCover") = (pair[1] = 22)
        /\ StartCall([NoCall EXCEPT !.kind = "construct", !.op = cls], NoPlan)
        /\ EndLocal(NoErr)
        /\ deviceList' =
              <<NewDevice(cls, RawDevice(pair, 1, TRUE), TheInstallation,
                          IF cls = "DaisyAwningsCover" THEN ShadeOscMap ELSE <<>>, <<>>)>>
    /\ nStatus' = 0
    /\ UNCHANGED <<idAccount, idSession>>

\* the arguments the caller passes in the specification that explores `what`
ArgsFor(what, cls, op) ==
    CASE what = "status" -> StatusArgsOf(cls, op)
      [] what = "colour" -> ColourArgsOf(cls, op)
      [] OTHER -> ArgsOf(cls, op)

\* a control method among ops of a device is called, with arguments of ArgsFor
CallControlWith(ops, what) ==
    /\ pc = "idle"
    /\ \E i \in DOMAIN deviceList :
        \E op \in ControlMethods(deviceList[i].cls) \cap ops :
            \E a \in ArgsFor(what, deviceList[i].cls, op) :
                LET d == deviceList[i]
                    p == Invoke(d, op, a)
                IN  /\ StartCall([NoCall EXCEPT !.kind = "control", !.dev = i, !.op = op,
                                                !.args = a], p)
                    /\ IF p.raise # ""
                       THEN EndLocal(Raise(p.raise, NoneVal))
                       ELSE SendFeed(d.installation, p.commandsList)
    /\ nStatus' = 0
    /\ UNCHANGED <<deviceList, idAccount, idSession>>

\* a control method of a device is called
CallControl(ops) == CallControlWith(ops, "control")

\* the caller calls TelecoDaisy.feed_the_commands itself
FeedDirect ==
    /\ pc = "idle"
    /\ \E ignore_ack \in BOOLEAN, n \in 0..1 :
        LET cmds == [i \in 1..n |->
                        [commandAction |-> "OPEN_STOP_CLOSE", commandId |-> 96,
                         commandParam |-> "CLOSE", deviceCode |-> "1",
                         idInstallationDevice |-> 101, lowlevelCommand |-> "CH1"]]
        IN  /\ StartCall([NoCall EXCEPT !.kind = "feed", !.op = "feed_the_commands",
                                        !.ignore_ack = ignore_ack],
                         PlanFeed(cmds, TRUE))
            /\ SendFeed(TheInstallation, cmds)
    /\ nStatus' = 0
    /\ UNCHANGED <<deviceList, idAccount, idSession>>

\* the value the public method hands to its caller when feed_the_commands returned v
Returned(v) == IF plan.returns THEN v ELSE PyNone

\* the installation of the call in progress
CallInstallation ==
    IF call.kind = "control" THEN deviceList[call.dev].installation ELSE TheInstallation

\* the backend answers the submission; feed_the_commands goes on
FeedResponse ==
    /\ pc = "feed"
    /\ \E res \in FeedResponses :
        LET todo == feed_the_commands_on(res, call.ignore_ack)
        IN  /\ feedResp' = Some(res)
            /\ CASE todo = "raise" ->
                      /\ pc' = "done"
                      /\ err' = Raise("Exception", Some(res))
                      /\ UNCHANGED <<ref, depth, nAck, lastReq, ackRet, ret>>
                 [] todo = "return" ->
                      /\ pc' = "done"
                      /\ ackRet' = Some(SuccessDict("None"))
                      /\ ret' = Some(Returned(SuccessDict("None")))
                      /\ UNCHANGED <<ref, depth, nAck, lastReq, err>>
                 [] todo = "poll" ->
                      /\ pc' = "ack"
                      /\ ref' = res.ActionReference
                      /\ depth' = 1
                      /\ nAck' = 1
                      /\ lastReq' = AckReq(CallInstallation, res.ActionReference)
                      /\ UNCHANGED <<ackRet, ret, err>>
    /\ UNCHANGED <<deviceList, call, plan, batch, ackResp, nFeed, nSleep, nRcv>>
    /\ UNCHANGED <<idAccount, idSession, postResp, stati, nStatus>>

\* the backend answers an ack query; _get_ack goes on.  The backend answers
\* RCV to one batch at most cap times.
AckResponse(cap) ==
    /\ pc = "ack"
    /\ \E res \in AckResponses :
        LET todo == get_ack_on(res)
        IN  /\ todo = "retry" => nRcv < cap
            /\ ackResp' = Some(res)
            /\ CASE todo = "assert" ->
                      /\ pc' = "done"
                      /\ err' = Raise("AssertionError", NoneVal)
                      /\ UNCHANGED <<depth, nAck, nSleep, nRcv, lastReq, ackRet, ret>>
                 [] todo = "retry" /\ depth < RecursionLimit ->
                      \* sleep(0.5), then the nested call sends the next query
                      /\ pc' = "ack"
                      /\ nRcv' = nRcv + 1
                      /\ nSleep' = nSleep + 1
                      /\ depth' = depth + 1
                      /\ nAck' = nAck + 1
                      /\ lastReq' = AckReq(CallInstallation, ref)
                      /\ UNCHANGED <<ackRet, ret, err>>
                 [] todo = "retry" /\ depth >= RecursionLimit ->
                      \* sleep(0.5), then no frame is left for the nested call
                      /\ pc' = "done"
                      /\ nRcv' = nRcv + 1
                      /\ nSleep' = nSleep + 1
                      /\ err' = Raise("RecursionError", NoneVal)
                      /\ UNCHANGED <<depth, nAck, lastReq, ackRet, ret>>
                 [] todo \in {"true", "false"} ->
                      /\ pc' = "done"
                      /\ ackRet' = Some(SuccessDict(IF todo = "true" THEN "True" ELSE "False"))
                      /\ ret' = Some(Returned(SuccessDict(IF todo = "true" THEN "True"
                                                          ELSE "False")))
                      /\ UNCHANGED <<depth, nAck, nSleep, nRcv, lastReq, err>>
    /\ UNCHANGED <<deviceList, call, plan, batch, feedResp, ref, nFeed>>
    /\ UNCHANGED <<idAccount, idSession, postResp, stati, nStatus>>

\* update_state's result kept in fields that all device objects share
StoreRefreshedInEveryDevice(i, dev) ==
    [j \in DOMAIN deviceList |->
        [deviceList[j] EXCEPT !.is_on = dev.is_on, !.brightness = dev.brightness,
                              !.rgb = dev.rgb, !.is_closed = dev.is_closed,
                              !.position = dev.position]]

\* update_state's result kept in the device object it was called on
StoreRefreshed(i, dev) == [deviceList EXCEPT ![i] = dev]

\* device i's update_state is called, the backend answers the status query
\* with resp; it is the n-th query in a row
RefreshWith(i, resp, n) ==
    LET d == deviceList[i]
        r == update_state(d, resp)
    IN  /\ StartCall([NoCall EXCEPT !.kind = "refresh", !.dev = i, !.op = "update_state"],
                     NoPlan)
        /\ pc' = "done"
        /\ batch' = <<>>
        /\ nFeed' = 0
        /\ lastReq' = StatusReq(d.installation, d)
        /\ postResp' = Some(resp)
        /\ deviceList' = StoreRefreshed(i, r.dev)
        /\ stati' = r.stati
        /\ err' = r.err
        /\ nStatus' = n
        /\ UNCHANGED <<idAccount, idSession>>

\* the caller refreshes a device
Refresh ==
    /\ pc = "idle"
    /\ \E i \in DOMAIN deviceList, resp \in StatusResponses : RefreshWith(i, resp, 1)

\* the caller refreshes the same device once more at once, and the backend,
\* whose state has not changed, gives the answer it gave
RefreshAgain ==
    /\ pc = "done"
    /\ call.kind = "refresh"
    /\ nStatus = 1
    /\ RefreshWith(call.dev, Val(postResp), 2)

\* the backend has processed set_rgb_and_brightness; the caller refreshes the
\* device and the backend reports the colour it was sent, in the COLOR item
RefreshEcho ==
    /\ pc = "done"
    /\ call.kind = "control"
    /\ call.op = "set_rgb_and_brightness"
    /\ ackRet = Some(SuccessDict("True"))
    /\ RefreshWith(call.dev,
                   [codEsito |-> "S",
                    statusitemList |-> <<StatusItem("COLOR", batch[1].commandParam)>>], 1)

\* the caller has the call's outcome and goes on
CallerContinues ==
    /\ pc = "done"
    /\ pc' = "idle"
    /\ StartCall(NoCall, NoPlan)
    /\ batch' = <<>>
    /\ lastReq' = NoReq
    /\ nFeed' = 0
    /\ err' = NoErr
    /\ postResp' = NoneVal
    /\ stati' = NoneVal
    /\ nStatus' = 0
    /\ UNCHANGED <<deviceList, idAccount, idSession>>

Next ==
    \/ GetRoomListOf(DevicePairs, Installations)
    \/ ConstructDevice
    \/ CallControl(AllOps)
    \/ FeedDirect
    \/ FeedResponse
    \/ AckResponse(MaxRcv)
    \/ CallerContinues

Spec == Init /\ [][Next]_vars

\* The backend may answer RCV without end; one slat cover, to keep the poll
\* the only thing that grows.
NextLongPoll ==
    \/ GetRoomList(SlatPairs)
    \/ CallControl({"stop_cover", "close_cover"})
    \/ FeedResponse
    \/ AckResponse(RecursionLimit + 1)
    \/ CallerContinues

SpecLongPoll == Init /\ [][NextLongPoll]_vars

\* the methods SpecStatus calls
StatusOps ==
    {"open_cover", "close_cover", "turn_on", "turn_off", "set_rgb_and_brightness",
     "set_brightness", "set_level"}

\* The session, the rooms and the status refresh, with control calls of a few
\* arguments in between and an ack that is not repeated.
NextStatus ==
    \/ Login({"sess1", "sess2"})
    \/ GetAccountInstallationList
    \/ GetRoomList(StatusPairs)
    \/ ConstructDevice
    \/ CallControlWith(StatusOps, "status")
    \/ FeedResponse
    \/ AckResponse(0)
    \/ Refresh
    \/ RefreshAgain
    \/ CallerContinues

SpecStatus == Init /\ [][NextStatus]_vars

\* The RGB light: a colour is set, the backend processes it and reports it.
\* A behaviour ends with the refresh that reads the colour back, so that every
\* colour is set on a device that was not refreshed before.
NextColour ==
    \/ GetRoomList({<<23, 32>>})
    \/ CallControlWith({"set_rgb_and_brightness"}, "colour")
    \/ FeedResponse
    \/ AckResponse(0)
    \/ RefreshEcho
    \/ (call.kind # "refresh" /\ CallerContinues)

SpecColour == Init /\ [][NextColour]_vars

-----------------------------------------------------------------------------
(* Properties of the acknowledgment poller and the dispatcher. *)

\* the last ack response, when there is one
LastAck == Val(ackResp)

\* the last submission response, when there is one
LastFeed == Val(feedResp)

\* C1: against a backend whose ack responses all carry the ack message code,
\* k answers of the "received" text (RCV on the wire) followed by one other
\* answer make the poll end with a result after exactly k+1 queries and k
\* delays, and the result is success=true iff the last text is the "processed"
\* text (PROC on the wire).
C1_ScriptedPollCounts ==
    (pc = "done" /\ nAck > 0 /\ err.type # "AssertionError") =>
        /\ err = NoErr
        /\ LastAck.MessageText # "RCV"
        /\ nAck = nRcv + 1
        /\ nSleep = nRcv
        /\ ~IsNone(ackRet)
        /\ Val(ackRet) = SuccessDict(IF LastAck.MessageText = "PROC" THEN "True" ELSE "False")

\* C2: an ack response with another message code than WS-300 ends the poll
\* with AssertionError at whatever attempt it comes: no result is returned, and
\* the queries and delays stay those made before it (one query per RCV answer
\* so far plus the one it answers, one delay per RCV answer).
C2_WrongAckCodeIsFatal ==
    (~IsNone(ackResp) /\ LastAck.MessageID # "WS-300") =>
        /\ pc = "done"
        /\ err.type = "AssertionError"
        /\ IsNone(ackRet)
        /\ IsNone(ret)
        /\ nAck = nRcv + 1
        /\ nSleep = nRcv

\* C2 witness: the wrong code comes after two RCV answers, with the text RCV
C2_Witness ==
    /\ ~IsNone(ackResp)
    /\ LastAck = [MessageID |-> "WS-301", MessageText |-> "RCV"]
    /\ nRcv = 2
    /\ nAck = 3
    /\ err.type = "AssertionError"

\* C3: there is no maximum retry count: whenever the last answer is RCV (with
\* the ack code), the poller has waited and has the next query in flight; it has
\* neither returned nor failed.
C3_RcvIsAlwaysRequeried ==
    (~IsNone(ackResp) /\ LastAck.MessageID = "WS-300" /\ LastAck.MessageText = "RCV") =>
        /\ pc = "ack"
        /\ err = NoErr
        /\ nAck = nRcv + 1
        /\ nSleep = nRcv

\* C4: a submission answered with another message identifier than WS-000 fails
\* with the exception carrying the response, with ignore_ack set or not, and no
\* ack query is issued for the batch.
C4_RejectedSubmissionRaises ==
    (~IsNone(feedResp) /\ LastFeed.MessageID # "WS-000") =>
        /\ pc = "done"
        /\ err = Raise("Exception", feedResp)
        /\ nAck = 0
        /\ nSleep = 0
        /\ IsNone(ackRet)
        /\ IsNone(ret)

\* C4 witness: a rejected submission of a call with ignore_ack set
C4_Witness ==
    /\ call.ignore_ack
    /\ ~IsNone(feedResp)
    /\ LastFeed.MessageID = "WS-001"
    /\ err.type = "Exception"
    /\ nFeed = 1

\* C5: with ignore_ack set and the submission accepted, feed_the_commands
\* returns {"success": None} after exactly one request: no ack query, no delay.
C5_IgnoreAckReturnsIndeterminate ==
    (call.ignore_ack /\ ~IsNone(feedResp) /\ LastFeed.MessageID = "WS-000") =>
        /\ pc = "done"
        /\ err = NoErr
        /\ ackRet = Some(SuccessDict("None"))
        /\ ret = Some(SuccessDict("None"))
        /\ nFeed = 1
        /\ nAck = 0
        /\ nSleep = 0
        /\ IsNone(ackResp)

\* C5 witness: an accepted submission of a non-empty batch with ignore_ack set
C5_Witness ==
    /\ call.ignore_ack
    /\ ~IsNone(feedResp)
    /\ LastFeed.MessageID = "WS-000"
    /\ Len(batch) = 1
    /\ pc = "done"
    /\ ~IsNone(ret)

\* C6: every control operation returns to its caller the acknowledgment result
\* obtained for the batch it submitted.
C6_ControlReturnsAckResult ==
    (pc = "done" /\ call.kind = "control" /\ ~IsNone(ackRet)) => ret = ackRet

-----------------------------------------------------------------------------
(* Properties of the device behaviours. *)

\* the device a control call is made on
CallDevice == deviceList[call.dev]

InRange(x, lo, hi) == lo <= x /\ x <= hi

\* C7: set_rgb_and_brightness and set_brightness called with a brightness
\* outside [0,100], or set_rgb_and_brightness with an rgb channel outside
\* [0,255], raise ValueError and send no request at all; with brightness and
\* channels in range, the bounds included, the call submits one batch of one
\* command.
C7_ValidationBeforeNetwork ==
    (/\ call.kind = "control"
     /\ call.op \in {"set_rgb_and_brightness", "set_brightness"}
     /\ ~IsNone(call.args.brightness)
     /\ (call.op = "set_rgb_and_brightness" => ~IsNone(call.args.rgb))) =>
        LET b == Val(call.args.brightness)
            channelsOk == call.op = "set_rgb_and_brightness" =>
                            \A i \in 1..3 : InRange(Val(call.args.rgb)[i], 0, 255)
        IN  IF InRange(b, 0, 100) /\ channelsOk
            THEN /\ nFeed = 1
                 /\ Len(batch) = 1
                 /\ err.type # "ValueError"
            ELSE /\ pc = "done"
                 /\ err = Raise("ValueError", NoneVal)
                 /\ nFeed = 0
                 /\ nAck = 0
                 /\ lastReq = NoReq
                 /\ IsNone(ret)

\* C7 witness: brightness at its upper bound and a blue channel of 256 are
\* refused without a request
C7_Witness ==
    /\ call.kind = "control"
    /\ call.op = "set_rgb_and_brightness"
    /\ call.args.brightness = Some(100)
    /\ call.args.rgb = Some(<<0, 0, 256>>)
    /\ err.type = "ValueError"
    /\ nFeed = 0

\* the band the spec gives a brightness of 1..100
C8_Band(b) == IF b <= 37 THEN 25 ELSE IF b <= 62 THEN 50 ELSE IF b <= 87 THEN 75 ELSE 100

\* the LEVEL record of a band in the table of hardware model m (34 or 17)
C8_Level(d, band) ==
    LET k == band \div 25
        id == IF d.idDevicemodel = 34 THEN 140 + k ELSE 41 + k
        param == CASE k = 1 -> "LEV1" [] k = 2 -> "LEV2" [] k = 3 -> "LEV3" [] k = 4 -> "LEV4"
        ll == CASE k = 1 -> "CH4" [] k = 2 -> "CH3" [] k = 3 -> "CH2" [] k = 4 -> "CH1"
    IN  [commandAction |-> "LEVEL", commandId |-> id, commandParam |-> param,
         deviceCode |-> ToString(d.deviceIndex),
         idInstallationDevice |-> d.idInstallationDevice, lowlevelCommand |-> ll]

-----------------------------------------------------------------------------
(* Properties of the device registry. *)

\* the pairs create_specific_device has a case for
TablePairs == {<<23, 32>>, <<24, 27>>, <<21, 34>>, <<21, 17>>, <<21, 20>>, <<22, 25>>}

PairOf(raw) == <<raw.idDevicetype, raw.idDevicemodel>>

\* a room listing whose request succeeded is over
Listed == pc = "done" /\ call.kind = "room_list" /\ err.type # "Exception"

C10_FallbackByType ==
    (Listed /\ err = NoErr) =>
        \A i \in DOMAIN deviceList :
            LET d == deviceList[i]
            IN  /\ d.idDevicetype = 22 => d.cls \in {"DaisyShadeCover", "DaisyAwningsCover"}
                /\ (d.idDevicetype \in {21, 25} /\ d.idDevicemodel \notin {17, 20, 34}) =>
                        d.cls = "DaisyWhiteLight"

\* C10 amended: resolution is by the exact pair only: (23,32) the RGB light,
\* (24,27) the slat cover, (21,34) and (21,17) the 4-level light, (21,20) the
\* heater, (22,25) the shade cover, and every other pair, those of type 22, 21
\* and 25 included, the generic device.
C10_ExactPairOnly ==
    (Listed /\ err = NoErr) =>
        \A i \in DOMAIN deviceList :
            LET d == deviceList[i]
                pair == <<d.idDevicetype, d.idDevicemodel>>
            IN  d.cls = CASE pair = <<23, 32>> -> "DaisyRGBLight"
                          [] pair = <<24, 27>> -> "DaisySlatsCover"
                          [] pair \in {<<21, 34>>, <<21, 17>>} -> "DaisyWhite4LevelLight"
                          [] pair = <<21, 20>> -> "DaisyHeater4CH"
                          [] pair = <<22, 25>> -> "DaisyShadeCover"
                          [] OTHER -> "DaisyDevice"

\* C10 witness: a listed device of type 22 and model 1 is the generic device
C10_Witness ==
    /\ Listed
    /\ err = NoErr
    /\ Len(deviceList) = 1
    /\ deviceList[1].idDevicetype = 22
    /\ deviceList[1].idDevicemodel = 1
    /\ deviceList[1].cls = "DaisyDevice"

-----------------------------------------------------------------------------
(* Properties of the covers. *)

\* the cover family of a class: "slat", "shade" (shade and awning), or ""
C11_Family(cls) ==
    CASE cls = "DaisySlatsCover" -> "slat"
      [] cls \in {"DaisyShadeCover", "DaisyAwningsCover"} -> "shade"
      [] OTHER -> ""

\* the record the spec's table gives a family and an operation
C11_Record(d, op) ==
    LET fam == C11_Family(d.cls)
        t == CASE fam = "slat" /\ op = "open_cover" -> <<94, "OPEN", "CH4">>
               [] fam = "slat" /\ op = "stop_cover" -> <<95, "STOP", "CH7">>
               [] fam = "slat" /\ op = "close_cover" -> <<96, "CLOSE", "CH1">>
               [] fam = "shade" /\ op = "open_cover" -> <<75, "OPEN", "CH5">>
               [] fam = "shade" /\ op = "stop_cover" -> <<76, "STOP", "CH7">>
               [] fam = "shade" /\ op = "close_cover" -> <<77, "CLOSE", "CH8">>
    IN  [commandAction |-> "OPEN_STOP_CLOSE", commandId |-> t[1], commandParam |-> t[2],
         deviceCode |-> ToString(d.deviceIndex),
         idInstallationDevice |-> d.idInstallationDevice, lowlevelCommand |-> t[3]]

\* C11: open without a percent, stop and close of a cover submit one batch of
\* exactly one OPEN_STOP_CLOSE record carrying the triple of the cover's own
\* family: slat 94/OPEN/CH4, 95/STOP/CH7, 96/CLOSE/CH1; shade and awning
\* 75/OPEN/CH5, 76/STOP/CH7, 77/CLOSE/CH8; never a triple of the other family.
C11_CoverTriples ==
    (/\ call.kind = "control"
     /\ call.op \in {"open_cover", "stop_cover", "close_cover"}
     /\ IsNone(call.args.percent)) =>
        /\ C11_Family(CallDevice.cls) # ""
        /\ nFeed = 1
        /\ batch = <<C11_Record(CallDevice, call.op)>>
        /\ lastReq.path = "teleco/services/tmate20/feedthecommands/" =>
              lastReq.commandsList = batch

\* C11 witness: close on a shade cover has submitted 77/CLOSE/CH8
C11_Witness ==
    /\ call.kind = "control"
    /\ call.op = "close_cover"
    /\ CallDevice.cls = "DaisyShadeCover"
    /\ pc = "feed"
    /\ Len(batch) = 1
    /\ batch[1].commandId = 77
    /\ batch[1].commandParam = "CLOSE"
    /\ batch[1].lowlevelCommand = "CH8"

\* C12 as stated: open of a shade cover, with or without a percent, always
\* submits exactly one record with commandId 75 and never a LEVEL record.
C12_ShadeOpenIgnoresPercent ==
    (/\ call.kind = "control"
     /\ call.op = "open_cover"
     /\ C11_Family(CallDevice.cls) = "shade") =>
        /\ nFeed = 1
        /\ Len(batch) = 1
        /\ batch[1].commandId = 75
        /\ batch[1].commandAction # "LEVEL"

\* C12 amended: open_cover of a shade cover takes no percent.  Called without
\* one it submits exactly one record, 75/OPEN/CH5 of OPEN_STOP_CLOSE; called
\* with a percent (33, 66 or 100) it raises TypeError before any request.  In
\* neither case is a LEVEL record submitted.
C12_ShadeOpenTakesNoPercent ==
    (/\ call.kind = "control"
     /\ call.op = "open_cover"
     /\ C11_Family(CallDevice.cls) = "shade") =>
        /\ \A i \in DOMAIN batch : batch[i].commandAction # "LEVEL"
        /\ IF IsNone(call.args.percent)
           THEN /\ nFeed = 1
                /\ Len(batch) = 1
                /\ batch[1].commandId = 75
                /\ batch[1].commandAction = "OPEN_STOP_CLOSE"
           ELSE /\ pc = "done"
                /\ err = Raise("TypeError", NoneVal)
                /\ nFeed = 0
                /\ lastReq = NoReq
                /\ batch = <<>>

\* C12 witness: open_cover("33") on a shade cover ended in TypeError with no
\* request sent
C12_Witness ==
    /\ call.kind = "control"
    /\ call.op = "open_cover"
    /\ CallDevice.cls = "DaisyShadeCover"
    /\ call.args.percent = Some("33")
    /\ pc = "done"
    /\ err.type = "TypeError"
    /\ nFeed = 0

-----------------------------------------------------------------------------
(* Properties of the colour string and the status refresh. *)

C13_DigitChar(n) ==
    CASE n = 0 -> "0" [] n = 1 -> "1" [] n = 2 -> "2" [] n = 3 -> "3" [] n = 4 -> "4"
      [] n = 5 -> "5" [] n = 6 -> "6" [] n = 7 -> "7" [] n = 8 -> "8" [] n = 9 -> "9"

\* %03d of n in 0..999, digit by digit
C13_Pad3(n) ==
    C13_DigitChar(n \div 100) \o C13_DigitChar((n \div 10) % 10) \o C13_DigitChar(n % 10)

\* set_rgb_and_brightness was called with a brightness in [0,100] and an rgb
\* triple of channels in [0,255]
C13_SetColor ==
    /\ call.kind = "control"
    /\ call.op = "set_rgb_and_brightness"
    /\ ~IsNone(call.args.brightness)
    /\ ~IsNone(call.args.rgb)
    /\ InRange(Val(call.args.brightness), 0, 100)
    /\ \A i \in 1..3 : InRange(Val(call.args.rgb)[i], 0, 255)

\* the commandParam submitted is A%03dR%03dG%03dB%03d of the arguments
C13_Encoded ==
    C13_SetColor =>
        LET rgb == Val(call.args.rgb)
        IN  /\ nFeed = 1
            /\ Len(batch) = 1
            /\ batch[1].commandAction = "COLOR"
            /\ batch[1].commandParam =
                  "A" \o C13_Pad3(Val(call.args.brightness)) \o "R" \o C13_Pad3(rgb[1])
                      \o "G" \o C13_Pad3(rgb[2]) \o "B" \o C13_Pad3(rgb[3])

\* a refresh of the device whose COLOR item is the string just submitted
\* caches exactly the arguments, and set_rgb_and_brightness() from the cache
\* submits the same record again
C13_ReadBack ==
    (/\ C13_SetColor
     /\ pc = "done"
     /\ call'.kind = "refresh"
     /\ call'.dev = call.dev
     /\ postResp' = Some([codEsito |-> "S",
                          statusitemList |-> <<StatusItem("COLOR", batch[1].commandParam)>>])) =>
        LET d == deviceList'[call.dev]
        IN  /\ err' = NoErr
            /\ d.brightness = call.args.brightness
            /\ d.rgb = call.args.rgb
            /\ set_rgb_and_brightness(d, NoArgs).commandsList = batch

\* C13: for a brightness in [0,100] and channels in [0,255], the commandParam
\* of set_rgb_and_brightness is A%03dR%03dG%03dB%03d of (brightness, r, g, b);
\* update_state's COLOR rule reads exactly that brightness and that rgb back
\* from the string; and encoding the values read gives the same string.
C13_ColourRoundTrip == []C13_Encoded /\ [][C13_ReadBack]_vars

\* C13 witness: brightness 42 and rgb (9, 100, 255) were submitted as
\* A042R009G100B255 and read back from the refresh
C13_Witness ==
    /\ pc = "done"
    /\ call.kind = "refresh"
    /\ err = NoErr
    /\ Val(postResp).statusitemList = <<StatusItem("COLOR", "A042R009G100B255")>>
    /\ CallDevice.brightness = Some(42)
    /\ CallDevice.rgb = Some(<<9, 100, 255>>)

\* a step that is a status refresh: the one step that sends a status query
RefreshStep == pc' = "done" /\ call'.kind = "refresh" /\ nStatus' = nStatus + 1

\* the second of two refreshes in a row of one device, answered as the first was
C14_SecondRefresh ==
    /\ RefreshStep
    /\ pc = "done"
    /\ call.kind = "refresh"
    /\ call'.dev = call.dev
    /\ postResp' = postResp

\* C14: when a device is refreshed twice in a row and the backend gives the
\* same response both times, whatever the class and whatever was cached
\* before, the second refresh leaves every device's cached state as the first
\* left it and ends as the first did: the same list returned, or the same error.
C14_RefreshIdempotent ==
    [][C14_SecondRefresh => (deviceList' = deviceList /\ stati' = stati /\ err' = err)]_vars

\* C14 witness: a slat cover refreshed twice with OPEN and LEVEL 66
C14_Witness ==
    /\ pc = "done"
    /\ call.kind = "refresh"
    /\ nStatus = 2
    /\ CallDevice.cls = "DaisySlatsCover"
    /\ stati = Some(<<StatusItem("OPEN_CLOSE", "OPEN"), StatusItem("LEVEL", "66")>>)
    /\ CallDevice.is_closed = Some(FALSE)
    /\ CallDevice.position = Some(66)

\* the status codes a class's update_state reads
C15_Recognised(cls) ==
    CASE cls = "DaisySlatsCover" -> {"OPEN_CLOSE", "LEVEL"}
      [] cls \in {"DaisyShadeCover", "DaisyAwningsCover"} -> {"OPEN_CLOSE"}
      [] cls = "DaisyRGBLight" -> {"POWER", "COLOR"}
      [] cls \in {"DaisyWhiteLight", "DaisyWhite4LevelLight"} -> {"POWER"}
      [] OTHER -> {}

\* C15: a refresh whose items all have codes the device's class does not read
\* (or that has no item) ends without error and leaves the cached state of
\* every device as it was; and a refresh of any response has the effect, on
\* the cache and on the error raised, of the same response with the items of
\* unread codes taken out.
C15_UnrecognisedIgnored ==
    [][(RefreshStep /\ Val(postResp').codEsito = "S") =>
        LET i == call'.dev
            items == Val(postResp').statusitemList
            Read(item) == item.statusitemCode \in C15_Recognised(deviceList[i].cls)
            read == SelectSeq(items, Read)
            r == update_state(deviceList[i], [codEsito |-> "S", statusitemList |-> read])
        IN  /\ read = <<>> => (err' = NoErr /\ deviceList' = deviceList)
            /\ deviceList' = [deviceList EXCEPT ![i] = r.dev]
            /\ err' = r.err]_vars

\* C15 witness: an RGB light that was cached as on was refreshed with a TEMP
\* item alone and is still cached as on
C15_Witness ==
    /\ pc = "done"
    /\ call.kind = "refresh"
    /\ CallDevice.cls = "DaisyRGBLight"
    /\ Val(postResp).codEsito = "S"
    /\ Val(postResp).statusitemList = <<StatusItem("TEMP", "21")>>
    /\ err = NoErr
    /\ CallDevice.is_on = Some(TRUE)

\* C16: a refresh that ends without error, of a device of any class, returns
\* the status items of the response, all of them and in the order received.
C16_ReturnsRawSequence ==
    (pc = "done" /\ call.kind = "refresh" /\ err = NoErr) =>
        /\ Val(postResp).codEsito = "S"
        /\ stati = Some(Val(postResp).statusitemList)

\* C16 witness: a slat cover's refresh returned an item it does not read and
\* one it reads, in the order received
C16_Witness ==
    /\ pc = "done"
    /\ call.kind = "refresh"
    /\ CallDevice.cls = "DaisySlatsCover"
    /\ err = NoErr
    /\ stati = Some(<<StatusItem("TEMP", "21"), StatusItem("LEVEL", "66")>>)
    /\ CallDevice.position = Some(66)

\* a device object as the registry or the caller constructs it: nothing cached
C17_NothingCached(d) ==
    /\ IsNone(d.is_on)
    /\ IsNone(d.brightness)
    /\ IsNone(d.rgb)
    /\ IsNone(d.is_closed)
    /\ IsNone(d.position)

\* C17: a step changes what is cached only if it is a refresh, and then only
\* of the device refreshed: control calls, whatever their outcome, and the
\* login leave every device as it was; a room listing or a construction
\* gives new device objects with nothing cached.
C17_CacheChangesOnlyOnRefresh ==
    [][\/ deviceList' = deviceList
       \/ /\ RefreshStep
          /\ DOMAIN deviceList' = DOMAIN deviceList
          /\ \A j \in DOMAIN deviceList : j # call'.dev => deviceList'[j] = deviceList[j]
       \/ /\ call'.kind \in {"room_list", "construct"}
          /\ pc = "idle"
          /\ \A j \in DOMAIN deviceList' : C17_NothingCached(deviceList'[j])]_vars

\* C17 witness: turn_off of a light cached as on was acknowledged with
\* success, and the light is still cached as on
C17_Witness ==
    /\ pc = "done"
    /\ call.kind = "control"
    /\ call.op = "turn_off"
    /\ ackRet = Some(SuccessDict("True"))
    /\ CallDevice.is_on = Some(TRUE)

-----------------------------------------------------------------------------
(* Properties of the requests and of the errors. *)

\* C18: a submission carries the installation's instCode as idInstallation,
\* idScenario 0 and isScenario false; an ack query carries the same instCode
\* and the ActionReference the submission was answered with; a status query
\* carries the installation's numeric idInstallation and the device's
\* idInstallationDevice.  So the numeric id is on no submission and no ack
\* query, and the instCode on no status query.
C18_RoutingKeys ==
    /\ pc = "feed" => lastReq.path = "teleco/services/tmate20/feedthecommands/"
    /\ pc = "ack" => lastReq.path = "teleco/services/tmate20/getackcommand/"
    /\ (pc = "done" /\ call.kind = "refresh") =>
            lastReq.path = "teleco/services/status-device-list"
    /\ lastReq.path = "teleco/services/tmate20/feedthecommands/" =>
            /\ lastReq.idInstallation = CallInstallation.instCode
            /\ lastReq.idInstallation # ToString(CallInstallation.idInstallation)
            /\ lastReq.idScenario = 0
            /\ lastReq.isScenario = FALSE
            /\ lastReq.commandsList = batch
    /\ lastReq.path = "teleco/services/tmate20/getackcommand/" =>
            /\ lastReq.idInstallation = CallInstallation.instCode
            /\ lastReq.idInstallation # ToString(CallInstallation.idInstallation)
            /\ lastReq.id = LastFeed.ActionReference
    /\ lastReq.path = "teleco/services/status-device-list" =>
            /\ lastReq.idInstallation = CallDevice.installation.idInstallation
            /\ lastReq.idInstallationDevice = CallDevice.idInstallationDevice

\* C18 witness: the status query of the room's second device
C18_Witness ==
    /\ pc = "done"
    /\ call.kind = "refresh"
    /\ call.dev = 2
    /\ lastReq.path = "teleco/services/status-device-list"
    /\ lastReq.idInstallation = 7
    /\ lastReq.idInstallationDevice = 102

C20_Lights == {"DaisyRGBLight", "DaisyWhiteLight", "DaisyWhite4LevelLight"}

\* C20: turn_off of a light of any class and model submits one POWER record
\* with commandParam OFF, turn_on one with ON, and set_brightness(0) of a
\* 4-level light one POWER record with OFF.
C20_PowerOnOff ==
    (call.kind = "control" /\ CallDevice.cls \in C20_Lights) =>
        /\ call.op = "turn_on" =>
              /\ nFeed = 1
              /\ Len(batch) = 1
              /\ batch[1].commandAction = "POWER"
              /\ batch[1].commandParam = "ON"
        /\ (\/ call.op = "turn_off"
            \/ /\ call.op = "set_brightness"
               /\ CallDevice.cls = "DaisyWhite4LevelLight"
               /\ call.args.brightness = Some(0)) =>
              /\ nFeed = 1
              /\ Len(batch) = 1
              /\ batch[1].commandAction = "POWER"
              /\ batch[1].commandParam = "OFF"

-----------------------------------------------------------------------------
(* Properties of the records, the installation and the order of requests. *)

\* the idInstallationDevice values the backend holds under an installation
C21_DevicesOf(installation) ==
    IF installation.idInstallation = 7 THEN {101, 102} ELSE {201, 202}

\* the installation with a given instCode
C21_InstallationOf(code) == CHOOSE inst \in Installations : inst.instCode = code

\* C21: a control call that submits submits one batch of exactly one record;
\* the record carries the idInstallationDevice of the device called and its
\* deviceIndex, in decimal, as deviceCode; the batch goes to the installation
\* the device holds; a device of a room listing holds the installation that
\* was listed, so the record names a device of the installation it is sent to.
C21_OwnIdsOwnInstallation ==
    /\ (call.kind = "control" /\ nFeed = 1) =>
          /\ Len(batch) = 1
          /\ batch[1].idInstallationDevice = CallDevice.idInstallationDevice
          /\ batch[1].deviceCode = C13_DigitChar(CallDevice.deviceIndex)
          /\ pc = "feed" =>
                /\ lastReq.commandsList = batch
                /\ lastReq.idInstallation = CallDevice.installation.instCode
                /\ batch[1].idInstallationDevice
                      \in C21_DevicesOf(C21_InstallationOf(lastReq.idInstallation))
    /\ (Listed /\ err = NoErr) =>
          \A i \in DOMAIN deviceList :
              /\ deviceList[i].installation.idInstallation = lastReq.idInstallation
              /\ deviceList[i].idInstallationDevice
                    \in C21_DevicesOf(deviceList[i].installation)

\* C21 witness: the second device of a room of the second installation was
\* called; its record names device 202, channel 2, and goes to INST8
C21_Witness ==
    /\ call.kind = "control"
    /\ pc = "feed"
    /\ call.dev = 2
    /\ CallDevice.installation = OtherInstallation
    /\ batch[1].idInstallationDevice = 202
    /\ batch[1].deviceCode = "2"
    /\ lastReq.idInstallation = "INST8"

\* the one record the spec gives a slat cover's open with a percent
C22_Record(d, percent) ==
    LET t == CASE percent = NoneVal -> <<"OPEN_STOP_CLOSE", 94, "OPEN", "CH4">>
               [] percent = Some("100") -> <<"OPEN_STOP_CLOSE", 94, "OPEN", "CH4">>
               [] percent = Some("33") -> <<"LEVEL", 97, "LEV2", "CH2">>
               [] percent = Some("66") -> <<"LEVEL", 98, "LEV3", "CH3">>
    IN  [commandAction |-> t[1], commandId |-> t[2], commandParam |-> t[3],
         deviceCode |-> ToString(d.deviceIndex),
         idInstallationDevice |-> d.idInstallationDevice, lowlevelCommand |-> t[4]]

\* C22: open_cover of a slat cover with percent None or "100" submits exactly
\* one OPEN_STOP_CLOSE record 94/OPEN/CH4, with "33" exactly one LEVEL record
\* 97/LEV2/CH2, with "66" exactly one LEVEL record 98/LEV3/CH3: one batch is
\* submitted, the method raises nothing of its own, and when the backend
\* accepts the batch and answers the ack query with the ack code the call
\* ends without error and returns the ack result.
C22_SlatOpenPercent ==
    (/\ call.kind = "control"
     /\ call.op = "open_cover"
     /\ CallDevice.cls = "DaisySlatsCover"
     /\ call.args.percent \in {NoneVal, Some("33"), Some("66"), Some("100")}) =>
        /\ nFeed = 1
        /\ batch = <<C22_Record(CallDevice, call.args.percent)>>
        /\ err.type \notin {"KeyError", "TypeError", "ValueError"}
        /\ (/\ pc = "done"
            /\ LastFeed.MessageID = "WS-000"
            /\ LastAck.MessageID = "WS-300") =>
                /\ err = NoErr
                /\ ret = ackRet
                /\ ~IsNone(ret)

\* C22 witness: open_cover("66") of a slat cover was submitted as 98/LEV3/CH3
\* and processed
C22_Witness ==
    /\ call.kind = "control"
    /\ call.op = "open_cover"
    /\ CallDevice.cls = "DaisySlatsCover"
    /\ call.args.percent = Some("66")
    /\ pc = "done"
    /\ batch[1].commandAction = "LEVEL"
    /\ batch[1].commandId = 98
    /\ err = NoErr
    /\ ret = Some(SuccessDict("True"))

\* the path of the ack query
C23_AckPath == "teleco/services/tmate20/getackcommand/"

\* C23 in a state: a control operation that reached the transport made one
\* submission; when it has issued an ack query the submission was accepted
\* before, and the last query carries the action reference which the
\* response to this very submission returned
C23_QueryCarriesOwnReference ==
    (call.kind = "control" /\ pc \in {"feed", "ack", "done"} /\ lastReq # NoReq) =>
        /\ nFeed = 1
        /\ pc = "feed" => (nAck = 0 /\ IsNone(feedResp))
        /\ nAck > 0 =>
            /\ ~IsNone(feedResp)
            /\ LastFeed.MessageID = "WS-000"
            /\ lastReq.path = C23_AckPath
            /\ lastReq.id = LastFeed.ActionReference
        /\ pc = "ack" => nAck > 0

\* C23 in a step: the first ack query follows the accepted response and takes
\* its action reference; a retry repeats the reference of the query before
\* and leaves the submission and its response as they are
C23_QueryOrder ==
    /\ (nAck' > nAck) =>
          /\ nAck' = nAck + 1
          /\ nFeed' = nFeed /\ nFeed = 1
          /\ batch' = batch
          /\ \/ /\ pc = "feed" /\ nAck = 0
                /\ Val(feedResp').MessageID = "WS-000"
                /\ lastReq'.id = Val(feedResp').ActionReference
             \/ /\ pc = "ack"
                /\ feedResp' = feedResp
                /\ lastReq'.path = C23_AckPath
                /\ lastReq'.id = lastReq.id
                /\ lastReq'.idInstallation = lastReq.idInstallation
    /\ (nFeed' = 1 /\ nFeed = 0) => (pc = "idle" /\ pc' = "feed" /\ nAck' = 0)

\* C23: one control operation makes exactly one command submission; every ack
\* query it issues comes after that submission was accepted and carries the
\* action reference returned by that very submission, and every retry of the
\* poll carries the same reference unchanged.
C23_OneSubmissionThenOwnReference ==
    []C23_QueryCarriesOwnReference /\ [][C23_QueryOrder]_vars

\* C23 witness: the third ack query of a control operation whose submission
\* was answered with the second reference
C23_Witness ==
    /\ call.kind = "control"
    /\ pc = "ack"
    /\ nFeed = 1
    /\ nAck = 3
    /\ LastFeed.ActionReference = "ref2"
    /\ lastReq.id = "ref2"

\* the cached fields of a device
C24_Cache(d) == <<d.is_on, d.brightness, d.rgb, d.is_closed, d.position>>

\* C24: when the status query of update_state is answered with a codEsito
\* other than "S", the call ends with Exception carrying the response after
\* that one query, returns no list, and every device keeps every cached
\* field it had before the call.
C24_FailedRefreshKeepsCache ==
    [][(RefreshStep /\ Val(postResp').codEsito # "S") =>
          /\ err' = Raise("Exception", postResp')
          /\ stati' = NoneVal
          /\ lastReq'.path = "teleco/services/status-device-list"
          /\ nFeed' = 0 /\ nAck' = 0
          /\ deviceList' = deviceList
          /\ C24_Cache(deviceList'[call'.dev]) = C24_Cache(deviceList[call'.dev])]_vars

\* C24 witness: the status query of a refresh failed on a cover whose closed
\* flag an earlier refresh had set
C24_Witness ==
    /\ pc = "done"
    /\ call.kind = "refresh"
    /\ Val(postResp).codEsito = "E"
    /\ err.type = "Exception"
    /\ CallDevice.is_closed = Some(TRUE)

\* a step in which login is called
C25_LoginStep == pc = "idle" /\ call'.kind = "login"

\* C25 in a state: a request of an operation other than login carries the
\* idSession the client holds, and the idAccount where _post sends one
C25_RequestCarriesSession ==
    (lastReq # NoReq /\ lastReq.path # LoginReq.path) =>
        /\ lastReq.idSession = idSession
        /\ "idAccount" \in DOMAIN lastReq => lastReq.idAccount = idAccount

\* C25 in a step: a login answered with codEsito "S" stores the idAccount and
\* the idSession of the response, a login answered otherwise raises and
\* stores nothing, and no other step changes either of them
C25_SessionWrittenByLogin ==
    /\ C25_LoginStep =>
          IF Val(postResp').codEsito = "S"
          THEN /\ idSession' = Some(Val(postResp').idSession)
               /\ idAccount' = Some(Val(postResp').idAccount)
               /\ err' = NoErr
          ELSE /\ UNCHANGED <<idSession, idAccount>>
               /\ err'.type = "Exception"
    /\ ~C25_LoginStep => UNCHANGED <<idSession, idAccount>>

\* C25: idSession and idAccount are written only by a successful login; a
\* failed login and every other operation (installation and room listing,
\* status refresh, command submission, ack query) leave them unchanged, and
\* every request these operations send carries the idSession which the most
\* recent successful login stored.
C25_CredentialsOnlyFromLogin ==
    []C25_RequestCarriesSession /\ [][C25_SessionWrittenByLogin]_vars

\* C25 witness: an ack query carries the session which a login stored
C25_Witness ==
    /\ pc = "ack"
    /\ lastReq.path = C23_AckPath
    /\ idSession = Some("sess2")
    /\ lastReq.idSession = Some("sess2")

\* the positions of the items of a code in a status list
C26_ItemsOf(items, code) == {k \in DOMAIN items : items[k].statusitemCode = code}

\* the value of the last item of a code, where there is one
C26_LastValue(items, code) ==
    LET last == CHOOSE k \in C26_ItemsOf(items, code) :
                    \A j \in C26_ItemsOf(items, code) : j <= k
    IN  items[last].statusValue

\* the closed flag a value of OPEN_CLOSE stands for
C26_Closed(v) ==
    CASE v = "CLOSE" -> Some(TRUE)
      [] v = "OPEN" -> Some(FALSE)
      [] OTHER -> NoneVal

\* the integers the decimal LEVEL values of the backend stand for
C26_Integer(v) == CASE v = "0" -> 0 [] v = "66" -> 66

C26_Covers == {"DaisySlatsCover", "DaisyShadeCover", "DaisyAwningsCover"}

\* C26: after a successful refresh of a cover, is_closed is True when the
\* last OPEN_CLOSE item of the response has the value CLOSE, False when it has
\* OPEN, None for any other value, and what it was when the response has no
\* OPEN_CLOSE item; on a slat cover position is the integer of the last LEVEL
\* item's value, and what it was when the response has no LEVEL item.
C26_CoverStatus ==
    [][(RefreshStep /\ err' = NoErr /\ deviceList[call'.dev].cls \in C26_Covers) =>
          LET old == deviceList[call'.dev]
              new == deviceList'[call'.dev]
              items == Val(postResp').statusitemList
          IN  /\ new.is_closed =
                    IF C26_ItemsOf(items, "OPEN_CLOSE") = {} THEN old.is_closed
                    ELSE C26_Closed(C26_LastValue(items, "OPEN_CLOSE"))
              /\ old.cls = "DaisySlatsCover" =>
                    new.position =
                        IF C26_ItemsOf(items, "LEVEL") = {} THEN old.position
                        ELSE Some(C26_Integer(C26_LastValue(items, "LEVEL")))]_vars

\* C26 witness: a slat cover was refreshed with an OPEN_CLOSE item of the
\* value STOP and a LEVEL item
C26_Witness ==
    /\ pc = "done"
    /\ call.kind = "refresh"
    /\ err = NoErr
    /\ CallDevice.cls = "DaisySlatsCover"
    /\ stati = Some(<<StatusItem("OPEN_CLOSE", "STOP"), StatusItem("LEVEL", "66")>>)
    /\ CallDevice.is_closed = NoneVal
    /\ CallDevice.position = Some(66)

\* the brightness set_rgb_and_brightness works with: the argument, or the
\* cached brightness when it is omitted, 0 when nothing is cached
C27_Brightness ==
    IF ~IsNone(call.args.brightness) THEN Val(call.args.brightness)
    ELSE IF IsNone(CallDevice.brightness) THEN 0
    ELSE Val(CallDevice.brightness)

\* the rgb triple set_rgb_and_brightness works with: the argument, or the
\* cached triple when it is omitted, (255, 255, 255) when nothing is cached
C27_Rgb ==
    IF ~IsNone(call.args.rgb) THEN Val(call.args.rgb)
    ELSE IF IsNone(CallDevice.rgb) THEN <<255, 255, 255>>
    ELSE Val(CallDevice.rgb)

C27_SetColorCall == call.kind = "control" /\ call.op = "set_rgb_and_brightness"

\* C27: set_rgb_and_brightness takes an omitted brightness from the cache of
\* the last refresh (0 when nothing is cached or the cached brightness is 0)
\* and an omitted rgb from the cached triple ((255, 255, 255) when nothing is
\* cached); the values taken from the cache pass the same range checks as
\* arguments do, and the colour string submitted carries them.
C27_DefaultsFromCache ==
    C27_SetColorCall =>
        IF ~InRange(C27_Brightness, 0, 100) \/ \E i \in 1..3 : ~InRange(C27_Rgb[i], 0, 255)
        THEN /\ pc = "done"
             /\ err.type = "ValueError"
             /\ nFeed = 0
             /\ batch = <<>>
        ELSE /\ nFeed = 1
             /\ Len(batch) = 1
             /\ batch[1].commandAction = "COLOR"
             /\ batch[1].commandParam =
                   "A" \o C13_Pad3(C27_Brightness) \o "R" \o C13_Pad3(C27_Rgb[1])
                       \o "G" \o C13_Pad3(C27_Rgb[2]) \o "B" \o C13_Pad3(C27_Rgb[3])

\* C27 witness: after a refresh that reported A040R010G020B030, the colour
\* (1, 2, 3) is set without a brightness and the brightness 40 is sent again
C27_Witness ==
    /\ C27_SetColorCall
    /\ call.args = [NoArgs EXCEPT !.rgb = Some(<<1, 2, 3>>)]
    /\ CallDevice.brightness = Some(40)
    /\ CallDevice.rgb = Some(<<10, 20, 30>>)
    /\ nFeed = 1
    /\ batch[1].commandParam = "A040R001G002B003"

\* C27, the range checks: the brightness 150 which a refresh cached is
\* refused when the brightness is omitted
C27_WitnessCachedOutOfRange ==
    /\ C27_SetColorCall
    /\ call.args = [NoArgs EXCEPT !.rgb = Some(<<1, 2, 3>>)]
    /\ CallDevice.brightness = Some(150)
    /\ pc = "done"
    /\ err.type = "ValueError"

====
